---- MODULE Spec2Model ----
(***************************************************************************)
(* Model of database/connection.py: class Database.                        *)
(*                                                                         *)
(* The class body defines get_cursor, close and get_user_first_name twice; *)
(* Python keeps the LAST definition of a name in a class body, so the      *)
(* methods modelled are the ones at lines 111-141, not those at 91-109.    *)
(* The commented-out draft (lines 193-381) is not code.                    *)
(***************************************************************************)
EXTENDS Integers, Sequences, FiniteSets, TLC

VARIABLES
    env,          \* os.environ restricted to the variables the class reads
    files,        \* what each candidate config.json holds, in list order
    _config,      \* Database._config
    connection,   \* Database.connection: None (0) or a handle id
    created,      \* handles psycopg2.connect has returned to this instance
    closed,       \* handles on which close() has been called
    op,           \* name of the last method called
    ret,          \* what the last call returned or raised
    sent,         \* calls the last method forwarded to the driver
    changes       \* number of environment / file edits made so far

vars == <<env, files, _config, connection, created, closed, op, ret, sent, changes>>

-----------------------------------------------------------------------------
(* Bounds *)

MaxFiles == 2      \* candidate locations holding a file in an initial state
MaxChanges == 1    \* edits of the environment or of the files in one run
MaxHandles == 2    \* connections the driver hands out in one run

-----------------------------------------------------------------------------
(* Values *)

None == "None"          \* Python None, also: os.getenv of an unset variable
Missing == "<missing>"  \* a key a dict does not have

Keys == <<"dbname", "user", "password", "host", "port">>
KeySet == {Keys[i] : i \in 1..Len(Keys)}

\* the variable read for each key by the first step of _load_config
EnvName == [dbname |-> "DB_NAME", user |-> "DB_USER", password |-> "DB_PASSWORD",
            host |-> "DB_HOST", port |-> "DB_PORT"]

\* str.upper() on the five keys
Upper == [dbname |-> "DBNAME", user |-> "USER", password |-> "PASSWORD",
          host |-> "HOST", port |-> "PORT"]

\* f"DB_{key.upper()}": the variable read for each key by the file merge
MergeName(key) == "DB_" \o Upper[key]

EnvVars == {EnvName[k] : k \in KeySet} \cup {MergeName(k) : k \in KeySet}

\* the value a variable has when it is set to something non-empty
EnvValue == [DB_NAME |-> "env_name", DB_DBNAME |-> "env_dbname", DB_USER |-> "env_user",
             DB_PASSWORD |-> "env_password", DB_HOST |-> "env_host", DB_PORT |-> "env_port"]

\* a variable is unset, set to the empty string, or set to its value
EnvStates == {"unset", "empty", "set"}

EnvSetting(v, c) == IF c = "unset" THEN None ELSE IF c = "empty" THEN "" ELSE EnvValue[v]

EnvChoices(v) == {EnvSetting(v, c) : c \in EnvStates}

getenv(name) == env[name]

getenv_default(name, default) == IF env[name] = None THEN default ELSE env[name]

\* Python truthiness of a string-or-None value
Truthy(v) == v \notin {None, "", Missing}

NoKeys == [k \in KeySet |-> Missing]

\* A Python value held in _config / returned by _load_config:
\*   tag "none"  None;  tag "dict"  a dict, d[k] = Missing for an absent key;
\*   tag "list_empty" / "list_full"  a JSON document that is not an object.
NoneValue == [tag |-> "none", d |-> NoKeys]

Dict(d) == [tag |-> "dict", d |-> d]

\* bool(value): None, {} and [] are false
PyBool(value) ==
    CASE value.tag = "none" -> FALSE
      [] value.tag = "list_empty" -> FALSE
      [] value.tag = "list_full" -> TRUE
      [] value.tag = "dict" -> \E k \in KeySet : value.d[k] # Missing

\* all(config.values()) for a dict with the five keys
AllValues(value) == \A k \in KeySet : Truthy(value.d[k])

-----------------------------------------------------------------------------
(* Candidate files *)

NumPaths == 4

FileValue(i) == [k \in KeySet |-> "file" \o ToString(i) \o "_" \o k]

FullObject(i) == FileValue(i)
NoPortObject(i) == [FileValue(i) EXCEPT !["port"] = Missing]

\* what may be found at candidate location i
FileStates == {"missing", "invalid", "list_empty", "list_full", "empty_object",
               "no_port_object", "full_object"}

FileContent(i, c) ==
    CASE c = "missing" -> [kind |-> "missing", d |-> NoKeys]           \* no file there
      [] c = "invalid" -> [kind |-> "invalid", d |-> NoKeys]           \* json.load raises
      [] c = "list_empty" -> [kind |-> "list_empty", d |-> NoKeys]     \* the document []
      [] c = "list_full" -> [kind |-> "list_full", d |-> NoKeys]       \* the document [1]
      [] c = "empty_object" -> [kind |-> "object", d |-> NoKeys]       \* the document {}
      [] c = "no_port_object" -> [kind |-> "object", d |-> NoPortObject(i)]
      [] c = "full_object" -> [kind |-> "object", d |-> FullObject(i)]

\* the document at candidate location i
FileAt(i) == FileContent(i, files[i])

\* the candidate locations holding a file
Present(x) == {i \in 1..NumPaths : x[i] # "missing"}

-----------------------------------------------------------------------------
(* Database._load_config *)

\* lines 22-28: the dict built from the environment
EnvConfig ==
    Dict([k \in KeySet |->
            IF k = "port" THEN getenv_default(EnvName[k], "5432")
                          ELSE getenv(EnvName[k])])

\* lines 48-50: the merge loop, on a dict
MergeEnv(d) ==
    [k \in KeySet |->
        IF Truthy(getenv(MergeName(k))) THEN getenv(MergeName(k)) ELSE d[k]]

\* lines 48-50 on a document that is not a dict: the first item assignment
\* file_config[key] = ... raises TypeError; with no variable set the loop
\* assigns nothing and the document goes through.
MergeRaises == \E k \in KeySet : Truthy(getenv(MergeName(k)))

\* lines 43-55: one iteration of the loop over possible_paths
TryFile(i) ==
    LET f == FileAt(i) IN
    CASE f.kind = "missing" -> [loaded |-> FALSE, value |-> NoneValue]
      [] f.kind = "invalid" -> [loaded |-> FALSE, value |-> NoneValue]
      [] f.kind \in {"list_empty", "list_full"} ->
            IF MergeRaises THEN [loaded |-> FALSE, value |-> NoneValue]
            ELSE [loaded |-> TRUE, value |-> [tag |-> f.kind, d |-> NoKeys]]
      [] f.kind = "object" -> [loaded |-> TRUE, value |-> Dict(MergeEnv(f.d))]

\* lines 58-64
FallbackConfig ==
    Dict([dbname |-> "DB_PAPERSYNC", user |-> "postgres", password |-> "papersync2025",
          host |-> "localhost", port |-> "5432"])

\* lines 42-67: the loop, then the fallback
RECURSIVE ScanPaths(_)
ScanPaths(i) ==
    IF i > NumPaths THEN FallbackConfig
    ELSE IF TryFile(i).loaded THEN TryFile(i).value
    ELSE ScanPaths(i + 1)

\* Resolve without lines 30-32: a complete environment is not returned at
\* once, the files are consulted all the same
Resolve_FilesFirst == ScanPaths(1)

\* lines 21-67: resolution when nothing is cached
Resolve == IF AllValues(EnvConfig) THEN EnvConfig ELSE ScanPaths(1)

\* lines 17-67: the value _load_config returns; every path stores the value
\* it returns in self._config (or returns what is stored there).
_load_config == IF PyBool(_config) THEN _config ELSE Resolve

-----------------------------------------------------------------------------
(* Results of a call *)

NoConnection == 0

Return(val) == [kind |-> "return", exc |-> "", val |-> val, h |-> NoConnection, cfg |-> NoneValue]
ReturnHandle(h) == [kind |-> "return", exc |-> "", val |-> "connection", h |-> h, cfg |-> NoneValue]
ReturnConfig(c) == [kind |-> "return", exc |-> "", val |-> "config", h |-> NoConnection, cfg |-> c]
Raise(exc) == [kind |-> "raise", exc |-> exc, val |-> "", h |-> NoConnection, cfg |-> NoneValue]

NoActive == "Exception: No active database connection."
NotEstablished == "Exception: Database connection is not established."
InterfaceError == "psycopg2.InterfaceError: connection already closed"
QueryError == "psycopg2.Error"

\* a call that changes no field of the Database
Same(r, s) ==
    [config |-> _config, connection |-> connection, created |-> created,
     closed |-> closed, ret |-> r, sent |-> s]

IsOpen(c) == c # NoConnection /\ c \notin closed

\* config['dbname'] ... config['port'] (lines 78-82) evaluate without KeyError
\* or TypeError
HasAllKeys(value) == value.tag = "dict" /\ \A k \in KeySet : value.d[k] # Missing

-----------------------------------------------------------------------------
(* Database.connect, lines 69-89 *)

\* lines 74-89, once the early return is passed
Open(ok) ==
    LET config == _load_config
        h == Cardinality(created) + 1
    IN  IF ~HasAllKeys(config)
        THEN [Same(Raise("ConnectionError"), {}) EXCEPT !.config = config]
        ELSE IF ok
        THEN [config |-> config, connection |-> h, created |-> created \cup {h},
              closed |-> closed, ret |-> ReturnHandle(h), sent |-> {"connect:ok"}]
        ELSE [Same(Raise("ConnectionError"), {"connect:fail"}) EXCEPT !.config = config]

\* connect without lines 71-72: a new connection on every call
connect_NoReuse(ok) == Open(ok)

\* connect testing only `if self.connection:` at line 71, as get_cursor does
connect_ReuseClosed(ok) ==
    IF connection # NoConnection
    THEN Same(ReturnHandle(connection), {})
    ELSE Open(ok)

\* connect storing a handle although the driver call has failed
connect_StoreOnFailure(ok) ==
    IF IsOpen(connection)
    THEN Same(ReturnHandle(connection), {})
    ELSE IF ~ok /\ HasAllKeys(_load_config)
         THEN [Open(TRUE) EXCEPT !.ret = Raise("ConnectionError"), !.sent = {"connect:fail"}]
         ELSE Open(ok)

connect(ok) ==
    IF IsOpen(connection)
    THEN Same(ReturnHandle(connection), {})
    ELSE Open(ok)

-----------------------------------------------------------------------------
(* The other methods.  q is what the database does with the query:         *)
(* "row" (a row matches), "norow" (none does) or "fail" (execute raises).  *)

QueryOutcomes == {"row", "norow", "fail"}

\* lines 111-115: [ret, sent] of get_cursor.  A psycopg2 connection object is
\* always true, open or closed; cursor() on a closed one raises InterfaceError.
get_cursor ==
    IF connection # NoConnection
    THEN IF connection \in closed
         THEN Same(Raise(InterfaceError), {"cursor:closed"})
         ELSE Same(Return("cursor"), {"cursor"})
    ELSE Same(Raise(NoActive), {})

\* cursor.execute(...) then cursor.fetchone() / fetchall() on a cursor
execute(q, found) ==
    IF q = "fail"
    THEN Same(Raise(QueryError), {"cursor", "execute:fail"})
    ELSE Same(Return(IF q = "row" THEN found ELSE None), {"cursor", "execute"})

\* lines 117-119
commit ==
    IF connection # NoConnection
    THEN IF connection \in closed
         THEN Same(Raise(InterfaceError), {"commit:closed"})
         ELSE Same(Return(None), {"commit"})
    ELSE Same(Return(None), {})

\* lines 121-123
rollback ==
    IF connection # NoConnection
    THEN IF connection \in closed
         THEN Same(Raise(InterfaceError), {"rollback:closed"})
         ELSE Same(Return(None), {"rollback"})
    ELSE Same(Return(None), {})

\* lines 125-128: connection.close() on a closed connection does nothing
close ==
    IF connection # NoConnection
    THEN [Same(Return(None), {"close"}) EXCEPT !.closed = closed \cup {connection}]
    ELSE Same(Return(None), {})

\* lines 130-141: no try/except here
get_user_first_name(q) ==
    IF get_cursor.ret.kind = "raise" THEN get_cursor
    ELSE execute(q, "first")

\* lines 146-150
get_staff_id(q) ==
    IF get_cursor.ret.kind = "raise" THEN get_cursor
    ELSE execute(q, "id")

\* lines 153-172: except Exception turns every failure into None
get_staff_name_by_id(staff_id, q) ==
    IF staff_id = None THEN Same(Return(None), {})
    ELSE IF get_cursor.ret.kind = "raise"
         THEN Same(Return(None), get_cursor.sent)
         ELSE IF execute(q, "first last").ret.kind = "raise"
              THEN Same(Return(None), execute(q, "first last").sent)
              ELSE execute(q, "first last")

\* lines 174-181
fetch_all(q) ==
    IF connection = NoConnection THEN Same(Raise(NotEstablished), {})
    ELSE IF get_cursor.ret.kind = "raise" THEN get_cursor
    ELSE IF q = "fail" THEN execute(q, "rows")
    ELSE Same(Return(IF q = "row" THEN "rows" ELSE "[]"), {"cursor", "execute"})

\* lines 183-190: connect(), then self.cursor raises AttributeError (the class
\* sets no attribute named cursor), which the except clause turns into None;
\* a ConnectionError from connect() ends the same way.
fetch_one(ok) == [connect(ok) EXCEPT !.ret = Return(None)]

-----------------------------------------------------------------------------
(* Actions *)

\* the fields a call leaves behind, and what it gave back
Call(eff) ==
    /\ _config' = eff.config
    /\ connection' = eff.connection
    /\ created' = eff.created
    /\ closed' = eff.closed
    /\ ret' = eff.ret
    /\ sent' = eff.sent
    /\ UNCHANGED <<env, files, changes>>

\* the driver can hand out another handle
Room(ok) == ok => Cardinality(created) < MaxHandles

LoadConfig ==
    /\ op' = "_load_config"
    /\ Call([Same(ReturnConfig(_load_config), {}) EXCEPT !.config = _load_config])

Connect ==
    /\ op' = "connect"
    /\ \E ok \in BOOLEAN : Room(ok) /\ Call(connect(ok))

GetCursor ==
    /\ op' = "get_cursor"
    /\ Call(get_cursor)

Commit ==
    /\ op' = "commit"
    /\ Call(commit)

Rollback ==
    /\ op' = "rollback"
    /\ Call(rollback)

Close ==
    /\ op' = "close"
    /\ Call(close)

GetUserFirstName ==
    /\ op' = "get_user_first_name"
    /\ \E q \in QueryOutcomes : Call(get_user_first_name(q))

GetStaffId ==
    /\ op' = "get_staff_id"
    /\ \E q \in QueryOutcomes : Call(get_staff_id(q))

GetStaffNameById ==
    /\ op' = "get_staff_name_by_id"
    /\ \E staff_id \in {None, "7"}, q \in QueryOutcomes :
            Call(get_staff_name_by_id(staff_id, q))

FetchAll ==
    /\ op' = "fetch_all"
    /\ \E q \in QueryOutcomes : Call(fetch_all(q))

FetchOne ==
    /\ op' = "fetch_one"
    /\ \E ok \in BOOLEAN : Room(ok) /\ Call(fetch_one(ok))

\* the process environment and the files change between calls
Edit ==
    /\ changes < MaxChanges
    /\ changes' = changes + 1
    /\ op' = "edit"
    /\ ret' = Return(None)
    /\ sent' = {}
    /\ UNCHANGED <<_config, connection, created, closed>>

SetEnv ==
    \E v \in EnvVars : \E x \in EnvChoices(v) :
        /\ x # env[v]
        /\ env' = [env EXCEPT ![v] = x]
        /\ UNCHANGED files
        /\ Edit

WriteFile ==
    \E i \in 1..NumPaths : \E c \in FileStates :
        /\ c # files[i]
        /\ files' = [files EXCEPT ![i] = c]
        /\ UNCHANGED env
        /\ Edit

-----------------------------------------------------------------------------
(* Specifications *)

\* lines 13-15: a new Database
NewDatabase ==
    /\ _config = NoneValue
    /\ connection = NoConnection
    /\ created = {}
    /\ closed = {}
    /\ op = "__init__"
    /\ ret = Return(None)
    /\ sent = {}
    /\ changes = 0

\* a new Database in a process with an empty environment and no config file
Init ==
    /\ env = [v \in EnvVars |-> None]
    /\ files = [i \in 1..NumPaths |-> "missing"]
    /\ NewDatabase

Next ==
    \/ LoadConfig
    \/ Connect
    \/ GetCursor
    \/ Commit
    \/ Rollback
    \/ Close
    \/ GetUserFirstName
    \/ GetStaffId
    \/ GetStaffNameById
    \/ FetchAll
    \/ FetchOne
    \/ SetEnv
    \/ WriteFile

Spec == Init /\ [][Next]_vars

\* a new Database in any environment, with a file at up to MaxFiles locations
InitResolve ==
    /\ env \in {[v \in EnvVars |-> EnvSetting(v, c[v])] : c \in [EnvVars -> EnvStates]}
    /\ files \in {x \in [1..NumPaths -> FileStates] : Cardinality(Present(x)) <= MaxFiles}
    /\ NewDatabase

NextResolve == LoadConfig

SpecResolve == InitResolve /\ [][NextResolve]_vars

\* a new Database in an empty environment, with a file at up to MaxFiles
\* locations; the environment and the files are then edited between calls
InitMemo ==
    /\ env = [v \in EnvVars |-> None]
    /\ files \in {x \in [1..NumPaths -> FileStates] : Cardinality(Present(x)) <= MaxFiles}
    /\ NewDatabase

NextMemo ==
    \/ LoadConfig
    \/ Connect
    \/ Close
    \/ SetEnv
    \/ WriteFile

SpecMemo == InitMemo /\ [][NextMemo]_vars

-----------------------------------------------------------------------------
(* Vocabulary of the claims *)

Connected == IsOpen(connection)

\* the four variables of the first step are non-empty, DB_PORT is not empty
EnvComplete ==
    /\ \A v \in {"DB_NAME", "DB_USER", "DB_PASSWORD", "DB_HOST"} : env[v] \notin {None, ""}
    /\ env["DB_PORT"] # ""

\* candidate i is the first one that exists and parses, and it holds an object
FirstLoadable(i) ==
    /\ FileAt(i).kind = "object"
    /\ \A j \in 1..(i - 1) : files[j] \in {"missing", "invalid"}

DriverConnect == {"connect:ok", "connect:fail"}

QueryEntryPoints ==
    {"get_cursor", "fetch_all", "fetch_one", "get_user_first_name", "get_staff_name_by_id"}

\* what an entry point can do in the current state
Outcomes(name) ==
    CASE name = "get_cursor" -> {get_cursor}
      [] name = "fetch_all" -> {fetch_all(q) : q \in QueryOutcomes}
      [] name = "fetch_one" -> {fetch_one(ok) : ok \in BOOLEAN}
      [] name = "get_user_first_name" -> {get_user_first_name(q) : q \in QueryOutcomes}
      [] name = "get_staff_name_by_id" -> {get_staff_name_by_id("7", q) : q \in QueryOutcomes}

\* how a call treated the missing connection: it tried to connect, it raised
\* (which error), or it returned without either
Policy(r, s) ==
    IF s \cap DriverConnect # {} THEN "reconnect"
    ELSE IF r.kind = "raise" THEN r.exc
    ELSE "return"

OnClosedHandle == {"cursor:closed", "commit:closed", "rollback:closed"}

-----------------------------------------------------------------------------
(* Claims *)

\* C1: with DB_NAME, DB_USER, DB_PASSWORD and DB_HOST non-empty (DB_PORT
\* non-empty or defaulted to "5432"), _load_config on a fresh Database returns
\* and stores exactly the five environment values, whatever the candidate
\* files hold.
C1_EnvironmentWins ==
    (op = "_load_config" /\ EnvComplete) =>
        /\ ret.cfg = Dict([dbname |-> env["DB_NAME"], user |-> env["DB_USER"],
                           password |-> env["DB_PASSWORD"], host |-> env["DB_HOST"],
                           port |-> IF env["DB_PORT"] = None THEN "5432" ELSE env["DB_PORT"]])
        /\ _config = ret.cfg
        /\ \A k \in KeySet, i \in 1..NumPaths : ret.cfg.d[k] # FileValue(i)[k]

\* C1 happens: a complete environment with the port defaulted, beside a full
\* config file at some candidate location
C1_Witness ==
    /\ op = "_load_config"
    /\ EnvComplete
    /\ env["DB_PORT"] = None
    /\ \E i \in 1..NumPaths : files[i] = "full_object"

\* C2: with an incomplete environment, the first candidate that exists and
\* parses is used, and each of the five keys holds its environment variable's
\* value when that variable is set (read here as: non-empty) and the file's
\* value otherwise.  Stated for environments that set none but the five
\* variables DB_NAME, DB_USER, DB_PASSWORD, DB_HOST and DB_PORT.
C2_FileMergedWithEnv ==
    (op = "_load_config" /\ ~EnvComplete /\ env["DB_DBNAME"] = None) =>
        \A i \in 1..NumPaths : FirstLoadable(i) =>
            \A k \in KeySet :
                ret.cfg.d[k] = IF Truthy(env[EnvName[k]]) THEN env[EnvName[k]]
                               ELSE FileAt(i).d[k]

\* C3: every configuration _load_config returns has all five fields present
\* and non-empty, with port "5432" when neither the environment nor a file
\* sets it.  Stated for candidate files that hold a JSON object or do not
\* parse at all.
C3_FullyPopulated ==
    (op = "_load_config" /\ \A i \in 1..NumPaths : files[i] \notin {"list_empty", "list_full"}) =>
        /\ ret.cfg.tag = "dict"
        /\ \A k \in KeySet : Truthy(ret.cfg.d[k])
        /\ (~Truthy(env["DB_PORT"]) /\ \A i \in 1..NumPaths : FileAt(i).d["port"] = Missing)
                => ret.cfg.d["port"] = "5432"

\* C4: once a _load_config call has stored a configuration (a dict), no later
\* call (by _load_config or by connect) changes it, and _load_config returns
\* it, whatever happens to the environment and the files in between.
C4_Memoized ==
    [][(_config.tag = "dict") =>
            /\ _config' = _config
            /\ (op' = "_load_config" => ret'.cfg = _config)]_vars

\* C5: connect() on an open handle returns that handle and asks the driver for
\* nothing, and at most one handle created by the instance is open after any
\* call.
C5_SingleOpenHandle ==
    [][/\ (op' = "connect" /\ Connected) =>
            /\ ret' = ReturnHandle(connection)
            /\ connection' = connection
            /\ created' = created
            /\ sent' = {}
       /\ Cardinality(created' \ closed') <= 1]_vars

\* C5 happens: connect() returned the open handle without calling the driver
C5_Witness ==
    /\ op = "connect"
    /\ Connected
    /\ ret = ReturnHandle(connection)
    /\ sent = {}

\* C6: close() on a Connected manager leaves it Disconnected; connect() on a
\* closed handle asks the driver for a connection, and when the driver gives
\* one it is a handle never seen before, stored and returned, and the manager
\* is Connected.  The handle is always absent or one the driver returned.
C6_CloseThenReconnect ==
    [][/\ (op' = "close" /\ Connected) => (~Connected' /\ connection' = connection)
       /\ (op' = "connect" /\ connection \in closed) =>
            /\ sent' \cap DriverConnect # {}
            /\ ("connect:ok" \in sent') =>
                    /\ ret'.kind = "return"
                    /\ ret'.h \notin created
                    /\ connection' = ret'.h
                    /\ Connected'
       /\ connection' \in {NoConnection} \cup created']_vars

\* C6 happens: a second handle is open after the first one was closed
C6_Witness ==
    /\ op = "connect"
    /\ "connect:ok" \in sent
    /\ Connected
    /\ closed # {}
    /\ connection \notin closed

\* C7: on a manager without an open connection every query entry point
\* applies the policy of every other one (all reconnect, or all raise the same
\* error), and none calls the driver on a closed handle.
C7_OnePolicy ==
    [][(op' \in QueryEntryPoints /\ ~Connected) =>
            /\ \A name \in QueryEntryPoints : \A e \in Outcomes(name) :
                    Policy(e.ret, e.sent) = Policy(ret', sent')
            /\ sent' \cap OnClosedHandle = {}]_vars

\* C8: commit() and rollback() without an open connection forward nothing to
\* the driver, raise nothing and change nothing.
C8_NoOpWhenNotOpen ==
    [][(op' \in {"commit", "rollback"} /\ ~Connected) =>
            /\ sent' = {}
            /\ ret' = Return(None)
            /\ UNCHANGED <<connection, created, closed, _config>>]_vars

\* C9: get_user_first_name and get_staff_name_by_id never raise; they return
\* the name when a row matches and None otherwise.
C9_LookupsNeverRaise ==
    (op \in {"get_user_first_name", "get_staff_name_by_id"}) =>
        /\ ret.kind = "return"
        /\ ret.val \in {None, "first", "first last"}

\* C10: when the driver's connect call fails, connect() raises
\* ConnectionError, stores no handle, leaves the manager Disconnected and the
\* configuration the call resolved (all five keys) cached, and the next
\* connect() asks the driver again.
C10_FailedConnect ==
    [][(op' = "connect" /\ "connect:fail" \in sent') =>
            /\ ret' = Raise("ConnectionError")
            /\ UNCHANGED <<connection, created, closed>>
            /\ ~Connected'
            /\ _config' = _load_config
            /\ PyBool(_config') /\ HasAllKeys(_config')
            /\ (connect(FALSE).sent = {"connect:fail"})']_vars

\* C10 happens: the driver refused, with a closed handle from an earlier
\* connection still stored
C10_Witness ==
    /\ op = "connect"
    /\ "connect:fail" \in sent
    /\ ret = Raise("ConnectionError")
    /\ connection \in closed

====
